---- MODULE Spec2Model ----
(***************************************************************************)
(* Smart classroom simulation: the SimPy run of SmartClassroomSimulation   *)
(* (simulation.py) over ClassroomEnvironment (classroom_model.py) with the *)
(* configuration of config.py and the classifier of ml_model.py.           *)
(*                                                                         *)
(* Simulated time is SimPy's: an event queue ordered by (time, priority,   *)
(* insertion number).  One action of the model is one event leaving the    *)
(* queue, with the whole resumption of the process that waits for it.      *)
(*                                                                         *)
(* Floats are fixed-point integers: co2 in 1/Co2Unit ppm, temperature in   *)
(* 1/TempUnit degrees, noise in 1/NoiseUnit dB, occupancy in 1/OccUnit.    *)
(* A Gaussian draw is a choice from a finite set of offsets.               *)
(***************************************************************************)
EXTENDS Integers, Sequences, FiniteSets, TLC

VARIABLES
    now,            \* env.now
    queue,          \* env._queue: the scheduled events
    eid,            \* env._eid: the insertion number of the next event
    status,         \* "idle" | "running" | "completed" | "failed"
    model_loaded,   \* ml_classifier.model is not None
    classroom,      \* the fields of the ClassroomEnvironment
    fan_on, ac_on, lights_on,
    interventions,  \* self.interventions
    log,            \* self.log
    sched_pc,       \* position of the school_day_schedule generator
    ran,            \* history: the activities executed at time `now`, in order
    n_updates,      \* history: ClassroomEnvironment.update calls, per caller
    n_verdicts      \* history: predict() results, [conducive, non_conducive]

vars == << now, queue, eid, status, model_loaded, classroom, fan_on, ac_on,
           lights_on, interventions, log, sched_pc, ran, n_updates,
           n_verdicts >>

---------------------------------------------------------------------------
(* Bounds of the model *)

\* the first MaxNoisy update calls of a run draw freely, later ones the mean
MaxNoisy == 1
\* the first MaxFreeVerdicts verdicts of a run are free, later ones conducive
MaxFreeVerdicts == 2
\* calls of ClassroomEnvironment.update made on its own, outside a run
MaxDirectCalls == 2

---------------------------------------------------------------------------
(* config.py *)

simulation_duration == 480
room_capacity == 30
room_volume == 200
co2_max == 1000
temp_min == 20
temp_max == 26
noise_max == 65
light_min == 300
\* 0.004 ppm per person and minute, in 1/Co2Unit ppm
co2_per_person == 4
heat_per_person == 100

---------------------------------------------------------------------------
(* Fixed-point units *)

Co2Unit == 1000
NoiseUnit == 10
OccUnit == 1000
\* 3600 * room_volume * 1.2: the divisor of the temperature change per step
TempUnit == (3600 * room_volume * 12) \div 10

Max(a, b) == IF a >= b THEN a ELSE b

---------------------------------------------------------------------------
(* classroom_model.py *)

\* ClassroomEnvironment.__init__
InitClassroom ==
    [ co2 |-> 400 * Co2Unit,
      temperature |-> 22 * TempUnit,
      humidity |-> 50,
      noise |-> 40 * NoiseUnit,
      light |-> 500,
      occupancy |-> 0,
      student_count |-> 0 ]

\* np.random.normal(0, 5), (0, 0.1), (0, 2): the offsets one update call draws
ZeroDraw == [co2 |-> 0, temperature |-> 0, noise |-> 0]

Draws ==
    { ZeroDraw,
      [co2 |-> 605 * Co2Unit, temperature |-> 5 * TempUnit, noise |-> 30 * NoiseUnit],
      [co2 |-> 0, temperature |-> 5 * TempUnit, noise |-> 30 * NoiseUnit],
      [co2 |-> 0 - 3 * Co2Unit, temperature |-> 0, noise |-> 0 - 40 * NoiseUnit],
      [co2 |-> 0, temperature |-> 0, noise |-> 30 * NoiseUnit] }

\* air_change_rate, in tenths of an air change per hour
air_change_rate(fan) == IF fan THEN 5 ELSE 1

\* mutant: the occupancy is computed before the new student count is stored
update_stale_occupancy(c, time_step, student_count, fan, ac, d) ==
    LET co2_production == student_count * co2_per_person * time_step
        co2_1 == c.co2 + co2_production
        co2_2 == co2_1 - ((air_change_rate(fan) * (co2_1 - 400 * Co2Unit) * time_step) \div 600)
        heat_gain == student_count * heat_per_person * time_step
                     - (IF ac THEN 2000 * time_step ELSE 0)
        temp_1 == c.temperature + heat_gain
    IN  [ co2 |-> co2_2 + d.co2,
          temperature |-> temp_1 + d.temperature,
          humidity |-> c.humidity,
          noise |-> 40 * NoiseUnit + student_count * 8 + d.noise,
          light |-> c.light,
          occupancy |-> (c.student_count * OccUnit) \div room_capacity,
          student_count |-> student_count ]

\* the state of the environment after update(time_step, student_count, fan, ac)
update(c, time_step, student_count, fan, ac, d) ==
    LET co2_production == student_count * co2_per_person * time_step
        co2_1 == c.co2 + co2_production
        co2_2 == co2_1 - ((air_change_rate(fan) * (co2_1 - 400 * Co2Unit) * time_step) \div 600)
        \* heat_gain * 3600
        heat_gain == student_count * heat_per_person * time_step
                     - (IF ac THEN 2000 * time_step ELSE 0)
        temp_1 == c.temperature + heat_gain
    IN  [ co2 |-> co2_2 + d.co2,
          temperature |-> temp_1 + d.temperature,
          humidity |-> c.humidity,
          noise |-> 40 * NoiseUnit + student_count * 8 + d.noise,
          light |-> c.light,
          occupancy |-> (student_count * OccUnit) \div room_capacity,
          student_count |-> student_count ]

\* mutant: the dict holds the fields as stored, without the floors
env_data_unclamped(c) ==
    [ co2 |-> c.co2,
      temperature |-> c.temperature,
      humidity |-> c.humidity,
      noise |-> c.noise,
      light |-> c.light,
      occupancy |-> c.occupancy ]

\* the dict update() returns
env_data(c) ==
    [ co2 |-> Max(400 * Co2Unit, c.co2),
      temperature |-> c.temperature,
      humidity |-> c.humidity,
      noise |-> Max(30 * NoiseUnit, c.noise),
      light |-> c.light,
      occupancy |-> c.occupancy ]

---------------------------------------------------------------------------
(* The SimPy environment: env.schedule, env.step *)

URGENT == 0
NORMAL == 1

Event(t, prio, id, kind, proc) ==
    [time |-> t, priority |-> prio, eid |-> id, kind |-> kind, proc |-> proc]

\* mutant: events of the same time and priority leave last-in first-out
Before_lifo(e, f) ==
    \/ e.time < f.time
    \/ e.time = f.time /\ e.priority < f.priority
    \/ e.time = f.time /\ e.priority = f.priority /\ e.eid > f.eid

\* heap order of env._queue: (time, priority, eid)
Before(e, f) ==
    \/ e.time < f.time
    \/ e.time = f.time /\ e.priority < f.priority
    \/ e.time = f.time /\ e.priority = f.priority /\ e.eid < f.eid

NextEvent == CHOOSE e \in queue : \A f \in queue \ {e} : Before(e, f)

Procs == {"schedule", "monitoring", "logging"}

\* who calls ClassroomEnvironment.update: the three processes, or a caller of
\* the method itself
Callers == Procs \cup {"direct"}

---------------------------------------------------------------------------
(* simulation.py *)

\* the three loops of school_day_schedule: students, minutes
Segments ==
    << [students |-> 30, minutes |-> 90],
       [students |-> 5, minutes |-> 15],
       [students |-> 25, minutes |-> 90] >>

\* SmartClassroomSimulation.__init__, with the outcome of load_model
Init ==
    /\ now = 0
    /\ queue = { Event(0, URGENT, 0, "init", "schedule"),
                 Event(0, URGENT, 1, "init", "monitoring"),
                 Event(0, URGENT, 2, "init", "logging") }
    /\ eid = 3
    /\ status = "idle"
    /\ model_loaded \in BOOLEAN
    /\ classroom = InitClassroom
    /\ fan_on = FALSE
    /\ ac_on = FALSE
    /\ lights_on = TRUE
    /\ interventions = << >>
    /\ log = << >>
    /\ sched_pc = [seg |-> 0, iter |-> 0]
    /\ ran = << >>
    /\ n_updates = [p \in Callers |-> 0]
    /\ n_verdicts = [conducive |-> 0, non_conducive |-> 0]

\* mutant: the stop event is scheduled one minute late
Run_stops_late ==
    /\ status = "idle"
    /\ status' = "running"
    /\ queue' = queue \cup {Event(simulation_duration + 1, URGENT, eid, "until", "run")}
    /\ eid' = eid + 1
    /\ UNCHANGED << now, model_loaded, classroom, fan_on, ac_on, lights_on,
                    interventions, log, sched_pc, ran, n_updates, n_verdicts >>

\* run(): env.run(until=simulation_duration) schedules the stop event
Run ==
    /\ status = "idle"
    /\ status' = "running"
    /\ queue' = queue \cup {Event(simulation_duration, URGENT, eid, "until", "run")}
    /\ eid' = eid + 1
    /\ UNCHANGED << now, model_loaded, classroom, fan_on, ac_on, lights_on,
                    interventions, log, sched_pc, ran, n_updates, n_verdicts >>

\* env.step pops the next event: the clock moves to its time
Pop(e) ==
    /\ status = "running"
    /\ queue # {}
    /\ e = NextEvent
    /\ now' = e.time

\* the activities executed at the current instant
Ran(e, proc) == IF e.time = now THEN Append(ran, proc) ELSE << proc >>

\* the offsets an update call may draw
DrawChoices ==
    IF n_updates["schedule"] + n_updates["monitoring"] + n_updates["logging"] < MaxNoisy
    THEN Draws ELSE {ZeroDraw}

\* predict(env_data): the verdicts the classifier may return
VerdictChoices ==
    IF n_verdicts.conducive + n_verdicts.non_conducive < MaxFreeVerdicts
    THEN BOOLEAN ELSE {TRUE}

\* mutant: the actuator flags are left at the defaults of update's signature
CallUpdate_default_flags(proc, student_count, d) ==
    /\ classroom' = update(classroom, 1, student_count, FALSE, FALSE, d)
    /\ n_updates' = [n_updates EXCEPT ![proc] = @ + 1]

\* update_environment(student_count) and the update calls of the two loops
CallUpdate(proc, student_count, d) ==
    /\ classroom' = update(classroom, 1, student_count, fan_on, ac_on, d)
    /\ n_updates' = [n_updates EXCEPT ![proc] = @ + 1]

\* mutant: the temperature rule is tested before the co2 rule
rule_action_temp_first(data) ==
    IF data.temperature > temp_max * TempUnit THEN "activate_ac"
    ELSE IF data.co2 > co2_max * Co2Unit THEN "activate_ventilation"
    ELSE IF data.noise > noise_max * NoiseUnit THEN "send_alert"
    ELSE "None"

\* the action the rules of trigger_interventions choose
rule_action(data) ==
    IF data.co2 > co2_max * Co2Unit THEN "activate_ventilation"
    ELSE IF data.temperature > temp_max * TempUnit THEN "activate_ac"
    ELSE IF data.noise > noise_max * NoiseUnit THEN "send_alert"
    ELSE "None"

\* mutant: the record is appended only when a rule fired
trigger_drops_unmatched(data, t, fan, ac, hist) ==
    LET action == rule_action(data)
        intervention == [ time |-> t,
                          co2 |-> data.co2,
                          temperature |-> data.temperature,
                          action |-> action ]
    IN  [ fan_on |-> IF action = "activate_ventilation" THEN TRUE ELSE fan,
          ac_on |-> IF action = "activate_ac" THEN TRUE ELSE ac,
          interventions |-> IF action = "None" THEN hist
                            ELSE Append(hist, intervention) ]

\* mutant: the fan and the air conditioning exclude each other
trigger_exclusive_actuators(data, t, fan, ac, hist) ==
    LET action == rule_action(data)
        intervention == [ time |-> t,
                          co2 |-> data.co2,
                          temperature |-> data.temperature,
                          action |-> action ]
    IN  [ fan_on |-> IF action = "activate_ventilation" THEN TRUE
                     ELSE IF action = "activate_ac" THEN FALSE ELSE fan,
          ac_on |-> IF action = "activate_ac" THEN TRUE
                    ELSE IF action = "activate_ventilation" THEN FALSE ELSE ac,
          interventions |-> Append(hist, intervention) ]

\* mutant: ventilation switches the air conditioning on as well
trigger_all_actuators(data, t, fan, ac, hist) ==
    LET action == rule_action(data)
        intervention == [ time |-> t,
                          co2 |-> data.co2,
                          temperature |-> data.temperature,
                          action |-> action ]
    IN  [ fan_on |-> IF action = "activate_ventilation" THEN TRUE ELSE fan,
          ac_on |-> IF action \in {"activate_ac", "activate_ventilation"}
                    THEN TRUE ELSE ac,
          interventions |-> Append(hist, intervention) ]

\* mutant: the record is stamped with the minute after the tick
trigger_late_time(data, t, fan, ac, hist) ==
    LET action == rule_action(data)
        intervention == [ time |-> t + 1,
                          co2 |-> data.co2,
                          temperature |-> data.temperature,
                          action |-> action ]
    IN  [ fan_on |-> IF action = "activate_ventilation" THEN TRUE ELSE fan,
          ac_on |-> IF action = "activate_ac" THEN TRUE ELSE ac,
          interventions |-> Append(hist, intervention) ]

\* mutant: the noise alert starts the fan as well
trigger_alert_starts_fan(data, t, fan, ac, hist) ==
    LET action == rule_action(data)
        intervention == [ time |-> t,
                          co2 |-> data.co2,
                          temperature |-> data.temperature,
                          action |-> action ]
    IN  [ fan_on |-> IF action \in {"activate_ventilation", "send_alert"}
                     THEN TRUE ELSE fan,
          ac_on |-> IF action = "activate_ac" THEN TRUE ELSE ac,
          interventions |-> Append(hist, intervention) ]

\* trigger_interventions(env_data, prediction) at time t: the new actuator
\* flags and intervention history
trigger_interventions(data, t, fan, ac, hist) ==
    LET action == rule_action(data)
        intervention == [ time |-> t,
                          co2 |-> data.co2,
                          temperature |-> data.temperature,
                          action |-> action ]
    IN  [ fan_on |-> IF action = "activate_ventilation" THEN TRUE ELSE fan,
          ac_on |-> IF action = "activate_ac" THEN TRUE ELSE ac,
          interventions |-> Append(hist, intervention) ]

\* school_day_schedule resumed: its start, or the timeout it waits for
ScheduleStep ==
    \E e \in queue, d \in DrawChoices :
        /\ Pop(e)
        /\ e.proc = "schedule" /\ e.kind \in {"init", "timeout"}
        /\ ran' = Ran(e, "schedule")
        /\ eid' = eid + 1
        /\ IF e.kind = "init"
           THEN \* yield self.env.timeout(60)
                /\ d = ZeroDraw
                /\ queue' = (queue \ {e}) \cup {Event(e.time + 60, NORMAL, eid, "timeout", "schedule")}
                /\ UNCHANGED << classroom, n_updates, sched_pc >>
           ELSE LET next ==
                        IF sched_pc.seg = 0 THEN [seg |-> 1, iter |-> 1]
                        ELSE IF sched_pc.iter < Segments[sched_pc.seg].minutes
                             THEN [seg |-> sched_pc.seg, iter |-> sched_pc.iter + 1]
                             ELSE [seg |-> sched_pc.seg + 1, iter |-> 1]
                IN  /\ sched_pc' = next
                    /\ IF next.seg <= Len(Segments)
                       THEN /\ CallUpdate("schedule", Segments[next.seg].students, d)
                            /\ queue' = (queue \ {e}) \cup {Event(e.time + 1, NORMAL, eid, "timeout", "schedule")}
                       ELSE \* the generator returns: the process event is scheduled
                            /\ d = ZeroDraw
                            /\ queue' = (queue \ {e}) \cup {Event(e.time, NORMAL, eid, "exit", "schedule")}
                            /\ UNCHANGED << classroom, n_updates >>
        /\ UNCHANGED << status, model_loaded, fan_on, ac_on, lights_on,
                        interventions, log, n_verdicts >>

\* mutant: ml_monitoring yields between its sample and its verdict, so the
\* activities due at the same instant run in between
MonitoringStep_yields ==
    \E e \in queue, d \in DrawChoices, conducive \in VerdictChoices :
        /\ Pop(e)
        /\ e.proc = "monitoring" /\ e.kind \in {"init", "timeout", "sampled"}
        /\ ran' = Ran(e, "monitoring")
        /\ eid' = eid + 1
        /\ IF e.kind # "sampled"
           THEN /\ conducive = TRUE
                /\ CallUpdate("monitoring", classroom.student_count, d)
                /\ queue' = (queue \ {e}) \cup {Event(e.time, NORMAL, eid, "sampled", "monitoring")}
                /\ UNCHANGED << fan_on, ac_on, interventions, n_verdicts >>
           ELSE /\ d = ZeroDraw
                /\ UNCHANGED << classroom, n_updates >>
                /\ IF ~model_loaded
                   THEN /\ conducive = TRUE
                        /\ queue' = (queue \ {e}) \cup {Event(e.time, NORMAL, eid, "fail", "monitoring")}
                        /\ UNCHANGED << fan_on, ac_on, interventions, n_verdicts >>
                   ELSE /\ queue' = (queue \ {e}) \cup {Event(e.time + 5, NORMAL, eid, "timeout", "monitoring")}
                        /\ IF conducive
                           THEN /\ n_verdicts' = [n_verdicts EXCEPT !.conducive = @ + 1]
                                /\ UNCHANGED << fan_on, ac_on, interventions >>
                           ELSE LET r == trigger_interventions(env_data(classroom), e.time,
                                                               fan_on, ac_on, interventions)
                                IN  /\ n_verdicts' = [n_verdicts EXCEPT !.non_conducive = @ + 1]
                                    /\ fan_on' = r.fan_on
                                    /\ ac_on' = r.ac_on
                                    /\ interventions' = r.interventions
        /\ UNCHANGED << status, model_loaded, lights_on, log, sched_pc >>

\* one iteration of the loop of ml_monitoring
MonitoringStep ==
    \E e \in queue, d \in DrawChoices, conducive \in VerdictChoices :
        /\ Pop(e)
        /\ e.proc = "monitoring" /\ e.kind \in {"init", "timeout"}
        /\ ran' = Ran(e, "monitoring")
        /\ eid' = eid + 1
        /\ CallUpdate("monitoring", classroom.student_count, d)
        /\ IF ~model_loaded
           THEN \* predict raises ValueError: the process fails
                /\ conducive = TRUE
                /\ queue' = (queue \ {e}) \cup {Event(e.time, NORMAL, eid, "fail", "monitoring")}
                /\ UNCHANGED << fan_on, ac_on, interventions, n_verdicts >>
           ELSE /\ queue' = (queue \ {e}) \cup {Event(e.time + 5, NORMAL, eid, "timeout", "monitoring")}
                /\ IF conducive
                   THEN /\ n_verdicts' = [n_verdicts EXCEPT !.conducive = @ + 1]
                        /\ UNCHANGED << fan_on, ac_on, interventions >>
                   ELSE LET r == trigger_interventions(env_data(classroom'), e.time,
                                                       fan_on, ac_on, interventions)
                        IN  /\ n_verdicts' = [n_verdicts EXCEPT !.non_conducive = @ + 1]
                            /\ fan_on' = r.fan_on
                            /\ ac_on' = r.ac_on
                            /\ interventions' = r.interventions
        /\ UNCHANGED << status, model_loaded, lights_on, log, sched_pc >>

\* mutant: the timestamp is the time the loop wakes up next
log_entry_late_stamp(t, c, data, fan, ac) ==
    [ timestamp |-> t + 1,
      student_count |-> c.student_count,
      co2 |-> data.co2,
      temperature |-> data.temperature,
      humidity |-> data.humidity,
      noise |-> data.noise,
      light |-> data.light,
      occupancy |-> data.occupancy,
      fan_on |-> fan,
      ac_on |-> ac ]

\* the entry data_logging appends at time t
log_entry(t, c, data, fan, ac) ==
    [ timestamp |-> t,
      student_count |-> c.student_count,
      co2 |-> data.co2,
      temperature |-> data.temperature,
      humidity |-> data.humidity,
      noise |-> data.noise,
      light |-> data.light,
      occupancy |-> data.occupancy,
      fan_on |-> fan,
      ac_on |-> ac ]

\* one iteration of the loop of data_logging
LoggingStep ==
    \E e \in queue, d \in DrawChoices :
        /\ Pop(e)
        /\ e.proc = "logging" /\ e.kind \in {"init", "timeout"}
        /\ ran' = Ran(e, "logging")
        /\ eid' = eid + 1
        /\ CallUpdate("logging", classroom.student_count, d)
        /\ log' = Append(log, log_entry(e.time, classroom', env_data(classroom'), fan_on, ac_on))
        /\ queue' = (queue \ {e}) \cup {Event(e.time + 1, NORMAL, eid, "timeout", "logging")}
        /\ UNCHANGED << status, model_loaded, fan_on, ac_on, lights_on,
                        interventions, sched_pc, n_verdicts >>

\* the event of a process whose generator returned: nothing waits for it
ProcessExit ==
    \E e \in queue :
        /\ Pop(e)
        /\ e.kind = "exit"
        /\ queue' = queue \ {e}
        /\ ran' = IF e.time = now THEN ran ELSE << >>
        /\ UNCHANGED << eid, status, model_loaded, classroom, fan_on, ac_on,
                        lights_on, interventions, log, sched_pc, n_updates,
                        n_verdicts >>

\* the event of a process that raised: env.step re-raises, run() ends in error
ProcessFail ==
    \E e \in queue :
        /\ Pop(e)
        /\ e.kind = "fail"
        /\ queue' = queue \ {e}
        /\ status' = "failed"
        /\ ran' = IF e.time = now THEN ran ELSE << >>
        /\ UNCHANGED << eid, model_loaded, classroom, fan_on, ac_on,
                        lights_on, interventions, log, sched_pc, n_updates,
                        n_verdicts >>

\* the until event: StopSimulation, env.run returns
Stop ==
    \E e \in queue :
        /\ Pop(e)
        /\ e.kind = "until"
        /\ queue' = queue \ {e}
        /\ status' = "completed"
        /\ ran' = IF e.time = now THEN ran ELSE << >>
        /\ UNCHANGED << eid, model_loaded, classroom, fan_on, ac_on,
                        lights_on, interventions, log, sched_pc, n_updates,
                        n_verdicts >>

Next ==
    \/ Run
    \/ ScheduleStep
    \/ MonitoringStep
    \/ LoggingStep
    \/ ProcessExit
    \/ ProcessFail
    \/ Stop

Spec == Init /\ [][Next]_vars

\* the arguments a caller may pass to ClassroomEnvironment.update
TimeSteps == {1, 2}
StudentCounts == {0 - 1, 0, 30}

\* ClassroomEnvironment.update called on the constructed environment, with
\* any arguments
DirectUpdate ==
    \E time_step \in TimeSteps, student_count \in StudentCounts,
       fan \in BOOLEAN, ac \in BOOLEAN, d \in Draws :
        /\ status = "idle"
        /\ n_updates["direct"] < MaxDirectCalls
        /\ classroom' = update(classroom, time_step, student_count, fan, ac, d)
        /\ n_updates' = [n_updates EXCEPT !["direct"] = @ + 1]
        /\ UNCHANGED << now, queue, eid, status, model_loaded, fan_on, ac_on,
                        lights_on, interventions, log, sched_pc, ran,
                        n_verdicts >>

UnitNext == DirectUpdate

\* the environment model on its own: update as a function of its arguments
UnitSpec == Init /\ [][UnitNext]_vars

\* env.run steps the queue until the stop event: an enabled step is taken
FairSpec == Spec /\ WF_vars(Next)

---------------------------------------------------------------------------
(* Claims *)

TotalUpdates == n_updates["schedule"] + n_updates["monitoring"] + n_updates["logging"]

LastOf(s) == s[Len(s)]

\* the declared order of the activities: __init__ starts them in this order
Rank(proc) == CASE proc = "schedule" -> 1 [] proc = "monitoring" -> 2 [] proc = "logging" -> 3

\* C1: at every instant the activities that are due execute once each, in the
\* order schedule update, monitoring, logging, before time advances.
C1_FixedOrder ==
    \A i, j \in 1..Len(ran) : i < j => Rank(ran[i]) < Rank(ran[j])

\* C2 as claimed: after a complete run the intervention history has one
\* record per monitoring tick that executed.
C2_RecordPerMonitoringTick ==
    status = "completed" => Len(interventions) = n_updates["monitoring"]

\* C2 as amended: the intervention history has one record per monitoring tick
\* whose verdict was non-conducive, whether or not a rule fired, and none for
\* a conducive verdict; a complete run has a verdict for each multiple of 5
\* below the duration.
C2_RecordPerNonConducive ==
    /\ Len(interventions) = n_verdicts.non_conducive
    /\ status = "completed" =>
           n_verdicts.conducive + n_verdicts.non_conducive
               = (simulation_duration + 4) \div 5

\* a complete run with conducive verdicts and two non-conducive ones, one of
\* which fired a rule and one of which fired none
C2_Witness ==
    /\ status = "completed"
    /\ n_verdicts.conducive > 0
    /\ Len(interventions) = 2
    /\ interventions[1].action = "send_alert"
    /\ interventions[2].action = "None"

\* C3: a non-conducive verdict fires the first rule that holds, in the order
\* co2 > co2_max, temperature > temp_max, noise > noise_max: ventilation (and
\* fan_on) whenever co2 is high, whatever temperature and noise are;
\* activate_ac only with co2 not high and temperature high; send_alert only
\* with both not high and noise high.
C3_RulePriority ==
    [][ Len(interventions') > Len(interventions) =>
          LET r == LastOf(interventions')
              data == env_data(classroom')
              co2_high == data.co2 > co2_max * Co2Unit
              temp_high == data.temperature > temp_max * TempUnit
              noise_high == data.noise > noise_max * NoiseUnit
          IN  /\ co2_high => r.action = "activate_ventilation" /\ fan_on'
              /\ r.action = "activate_ventilation" => co2_high
              /\ r.action = "activate_ac" <=> ~co2_high /\ temp_high
              /\ r.action = "send_alert" <=> ~co2_high /\ ~temp_high /\ noise_high
      ]_vars

\* ventilation fired at time 0 with temperature and noise high as well
C3_Witness ==
    /\ now = 0
    /\ Len(interventions) = 1
    /\ interventions[1].action = "activate_ventilation"
    /\ fan_on
    /\ ran = << "schedule", "monitoring" >>
    /\ classroom.temperature > temp_max * TempUnit
    /\ classroom.noise > noise_max * NoiseUnit

\* C4: once fan_on (ac_on) is true it is true in every later state.
C4_ActuatorsMonotonic ==
    [][ (fan_on => fan_on') /\ (ac_on => ac_on') ]_vars

\* both actuators were switched on, and the run went on to its end
C4_Witness ==
    /\ fan_on /\ ac_on
    /\ status = "completed"

\* C5: one invocation of trigger_interventions changes at most one actuator
\* flag: activate_ac leaves fan_on, activate_ventilation leaves ac_on,
\* send_alert and no rule leave both; a conducive verdict changes neither.
C5_Frame ==
    [][ IF Len(interventions') > Len(interventions)
        THEN LET a == LastOf(interventions').action
             IN  /\ a = "activate_ac" => fan_on' = fan_on
                 /\ a = "activate_ventilation" => ac_on' = ac_on
                 /\ a \in {"send_alert", "None"} => fan_on' = fan_on /\ ac_on' = ac_on
        ELSE fan_on' = fan_on /\ ac_on' = ac_on
      ]_vars

\* ventilation fired and left the air conditioning off; activate_ac then fired
\* and left the fan on
C5_Witness ==
    /\ Len(interventions) = 2
    /\ interventions[1].action = "activate_ventilation"
    /\ interventions[2].action = "activate_ac"
    /\ interventions[2].time = 5
    /\ fan_on /\ ac_on

\* C6: the environment is advanced once per simulated minute, by the schedule
\* update alone; monitoring and logging read the state without advancing it.
C6_OneUpdatePerTick ==
    /\ TotalUpdates <= now + 1
    /\ n_updates["monitoring"] = 0
    /\ n_updates["logging"] = 0

\* C7: every snapshot update returns has co2 >= 400 and noise >= 30, and so
\* has every log entry; every intervention record has co2 >= 400.
C7_ClampedSnapshots ==
    /\ env_data(classroom).co2 >= 400 * Co2Unit
    /\ env_data(classroom).noise >= 30 * NoiseUnit
    /\ \A i \in 1..Len(log) :
           log[i].co2 >= 400 * Co2Unit /\ log[i].noise >= 30 * NoiseUnit
    /\ \A i \in 1..Len(interventions) :
           interventions[i].co2 >= 400 * Co2Unit

\* monitoring's update left the stored co2 and noise below the floors; the
\* record made of its snapshot, and the log entry after it, hold the floor
C7_Witness ==
    /\ classroom.co2 < 400 * Co2Unit
    /\ \E i \in 1..Len(log) : log[i].co2 = 400 * Co2Unit
    /\ \E i \in 1..Len(interventions) :
           /\ interventions[i].co2 = 400 * Co2Unit
           /\ interventions[i].time = now

\* C8: the log is append-only with one entry per logging tick: the entries
\* carry the timestamps 0, 1, 2, ... in order, a complete run of duration D
\* leaves exactly those below D, and no step changes or removes an entry.
C8_LogAppendOnly ==
    /\ [](Len(log) = n_updates["logging"])
    /\ [](\A i \in 1..Len(log) : log[i].timestamp = i - 1)
    /\ [](status = "completed" => Len(log) = simulation_duration)
    /\ [][ \/ log' = log
           \/ /\ Len(log') = Len(log) + 1
              /\ SubSeq(log', 1, Len(log)) = log ]_vars

C8_Witness ==
    /\ status = "completed"
    /\ Len(log) = simulation_duration
    /\ LastOf(log).timestamp = simulation_duration - 1
    /\ log[1].timestamp = 0

\* C9: with a usable classifier the run completes, at the configured
\* duration, and nothing executes at or after it: no update, no log entry and
\* no intervention record has a time >= simulation_duration.
C9_StopsAtDuration ==
    /\ [](status = "running" => now < simulation_duration)
    /\ [](status = "completed" => now = simulation_duration)
    /\ [](log # << >> => LastOf(log).timestamp < simulation_duration)
    /\ [](interventions # << >> => LastOf(interventions).time < simulation_duration)
    /\ (model_loaded => <>(status = "completed"))

\* the run completed after the schedule process had ended, with the next
\* wake-ups of the two endless loops still queued for the stop time
C9_Witness ==
    /\ status = "completed"
    /\ sched_pc.seg > Len(Segments)
    /\ \E e \in queue : e.proc = "monitoring" /\ e.time = simulation_duration
    /\ \E e \in queue : e.proc = "logging" /\ e.time = simulation_duration

\* C10: without a loaded classifier the run does not begin: no activity
\* executes, the environment is not changed and nothing is logged or recorded.
C10_NoRunWithoutModel ==
    ~model_loaded =>
        /\ TotalUpdates = 0
        /\ classroom = InitClassroom
        /\ log = << >>
        /\ interventions = << >>

\* C11: a non-conducive verdict with none of the three rule conditions true
\* is not dropped: exactly one record is appended, with the current time and
\* the no-match action value, and no actuator flag changes.
C11_NoMatchRecorded ==
    [][ LET data == env_data(classroom')
        IN  /\ n_verdicts'.non_conducive = n_verdicts.non_conducive + 1
            /\ data.co2 <= co2_max * Co2Unit
            /\ data.temperature <= temp_max * TempUnit
            /\ data.noise <= noise_max * NoiseUnit
            => /\ Len(interventions') = Len(interventions) + 1
               /\ SubSeq(interventions', 1, Len(interventions)) = interventions
               /\ LastOf(interventions').time = now'
               /\ LastOf(interventions').action = "None"
               /\ fan_on' = fan_on /\ ac_on' = ac_on
      ]_vars

\* the second monitoring tick found no rule to fire and recorded that
C11_Witness ==
    /\ now = 5
    /\ Len(interventions) = 1
    /\ interventions[1].action = "None"
    /\ interventions[1].time = 5
    /\ n_verdicts = [conducive |-> 1, non_conducive |-> 1]
    /\ ~fan_on /\ ~ac_on

\* C12: update called with a negative student_count is rejected and leaves
\* the environment as it was: the invalid value is never stored, and no
\* occupancy is derived from it.
C12_RejectsNegativeCount ==
    /\ classroom.student_count >= 0
    /\ classroom.occupancy >= 0

\* C13: after every update, whichever activity made it, the stored occupancy
\* is the stored student_count divided by room_capacity.
C13_OccupancyFollowsCount ==
    classroom.occupancy = (classroom.student_count * OccUnit) \div room_capacity

\* the class of 30 has arrived (a full room) and monitoring has just updated
C13_Witness ==
    /\ now = 60
    /\ ran = << "schedule", "monitoring" >>
    /\ classroom.student_count = 30
    /\ classroom.occupancy = OccUnit

\* C15: the floors are applied to the environment itself: after an update
\* the stored co2 is >= 400 and the stored noise >= 30, so the decay term of
\* the next update is never negative.
C15_StoredStateClamped ==
    /\ classroom.co2 >= 400 * Co2Unit
    /\ classroom.noise >= 30 * NoiseUnit

\* one update call was made by activity p, and no other
OnlyUpdate(p) == n_updates' = [n_updates EXCEPT ![p] = @ + 1]

\* C16: an activity step is atomic: the step in which monitoring writes the
\* actuator flags or its record is the step of its own sample, the record is
\* made of that sample, and no schedule update or logging happens in it;
\* likewise the step in which logging appends is the step of its own sample;
\* the environment is changed by one activity's update at a time.
C16_ActivitiesAtomic ==
    [][ /\ (interventions' # interventions \/ fan_on' # fan_on \/ ac_on' # ac_on) =>
              /\ OnlyUpdate("monitoring")
              /\ log' = log /\ sched_pc' = sched_pc
              /\ LastOf(interventions').co2 = env_data(classroom').co2
              /\ LastOf(interventions').temperature = env_data(classroom').temperature
        /\ log' # log =>
              /\ OnlyUpdate("logging")
              /\ interventions' = interventions /\ sched_pc' = sched_pc
              /\ fan_on' = fan_on /\ ac_on' = ac_on
              /\ LastOf(log').co2 = env_data(classroom').co2
              /\ LastOf(log').temperature = classroom'.temperature
              /\ LastOf(log').noise = env_data(classroom').noise
              /\ LastOf(log').student_count = classroom'.student_count
        /\ sched_pc' # sched_pc =>
              /\ n_updates' = n_updates \/ OnlyUpdate("schedule")
              /\ log' = log /\ interventions' = interventions
        /\ classroom' # classroom => \E p \in Procs : OnlyUpdate(p)
      ]_vars

\* at time 0 monitoring sampled, switched the fan on and recorded it, and
\* then logging sampled and appended: each in one step, one after the other
C16_Witness ==
    /\ now = 0
    /\ ran = << "schedule", "monitoring", "logging" >>
    /\ Len(interventions) = 1
    /\ interventions[1].action = "activate_ventilation"
    /\ fan_on
    /\ Len(log) = 1
    /\ log[1].fan_on
    /\ log[1].co2 # interventions[1].co2

\* C17: monitoring is invoked at the times 0, 5, 10, ... below the duration
\* and at no other: the k-th invocation is at time 5k; every record's time is
\* a multiple of 5 in [0, duration), and the times increase strictly along
\* the history (so at most one record per monitoring time).
C17_MonitoringTimes ==
    /\ [](\A i \in 1..Len(interventions) :
              /\ interventions[i].time % 5 = 0
              /\ interventions[i].time >= 0
              /\ interventions[i].time < simulation_duration)
    /\ [](\A i, j \in 1..Len(interventions) :
              i < j => interventions[i].time < interventions[j].time)
    /\ [][ n_updates'["monitoring"] # n_updates["monitoring"] =>
               /\ n_updates'["monitoring"] = n_updates["monitoring"] + 1
               /\ now' = 5 * n_updates["monitoring"] ]_vars
    /\ [](status = "completed" =>
              5 * n_updates["monitoring"] >= simulation_duration)

\* a complete run whose records are those of the ticks at 0 and at 5
C17_Witness ==
    /\ status = "completed"
    /\ Len(interventions) = 2
    /\ interventions[1].time = 0
    /\ interventions[2].time = 5
    /\ 5 * n_updates["monitoring"] = simulation_duration

\* the student count school_day_schedule sets for minute t
ExpectedStudents(t) ==
    IF t < 60 THEN 0
    ELSE IF t < 150 THEN 30
    ELSE IF t < 165 THEN 5
    ELSE 25

\* C18: the logged student count is a function of the time alone: 0 before
\* 60, 30 in [60, 150), 5 in [150, 165), 25 in [165, 255) and still 25 in
\* every later entry, after the schedule process has ended.
C18_StudentCountBySchedule ==
    \A i \in 1..Len(log) :
        log[i].student_count = ExpectedStudents(log[i].timestamp)

\* a complete run with the fan on since time 0, seen at each boundary
C18_Witness ==
    /\ status = "completed"
    /\ fan_on
    /\ log[60].student_count = 0 /\ log[61].student_count = 30
    /\ log[150].student_count = 30 /\ log[151].student_count = 5
    /\ log[165].student_count = 5 /\ log[166].student_count = 25
    /\ log[256].timestamp = 255 /\ log[256].student_count = 25
    /\ LastOf(log).student_count = 25

\* the history holds a record with this action
HasFired(hist, action) == \E i \in 1..Len(hist) : hist[i].action = action

\* C19: the actuator state is explained by the history: fan_on holds exactly
\* when a record activate_ventilation exists, ac_on exactly when a record
\* activate_ac exists.
C19_ActuatorsExplained ==
    /\ fan_on <=> HasFired(interventions, "activate_ventilation")
    /\ ac_on <=> HasFired(interventions, "activate_ac")

\* a complete run in which the air conditioning was started twice, the fan
\* never
C19_Witness ==
    /\ status = "completed"
    /\ ac_on /\ ~fan_on
    /\ Len(interventions) = 2
    /\ interventions[1].action = "activate_ac"
    /\ interventions[2].action = "activate_ac"

\* C20: an actuator change is in the log entry of its own tick and in every
\* later update: the entry with the timestamp of a record activate_ventilation
\* (activate_ac) has fan_on (ac_on) true, and every update call made once
\* such a record exists, logging's update of the same tick included, is made
\* with that flag true.
C20_ActuatorChangeVisible ==
    /\ [](\A i \in 1..Len(interventions) :
              LET r == interventions[i]
              IN  /\ status = "completed" => Len(log) > r.time
                  /\ Len(log) > r.time =>
                        /\ log[r.time + 1].timestamp = r.time
                        /\ r.action = "activate_ventilation" => log[r.time + 1].fan_on
                        /\ r.action = "activate_ac" => log[r.time + 1].ac_on)
    /\ [][ n_updates' # n_updates =>
               /\ HasFired(interventions, "activate_ventilation") =>
                     \E d \in Draws, ac \in BOOLEAN :
                         classroom' = update(classroom, 1, classroom'.student_count, TRUE, ac, d)
               /\ HasFired(interventions, "activate_ac") =>
                     \E d \in Draws, fan \in BOOLEAN :
                         classroom' = update(classroom, 1, classroom'.student_count, fan, TRUE, d)
         ]_vars

\* the air conditioning was started at time 0: the entry of minute 0 shows
\* it, and the update of minute 1 has cooled the room
C20_Witness ==
    /\ Len(interventions) = 1
    /\ interventions[1].action = "activate_ac"
    /\ interventions[1].time = 0
    /\ Len(log) = 2
    /\ log[1].ac_on
    /\ log[2].temperature < log[1].temperature

====
